---------------------------- MODULE Spec2Model ----------------------------
(***************************************************************************)
(* Model of the batch orchestration engine of manod-tools                  *)
(* (src/process.py, src/src/utils/logs.py, src/src/model/start.py,         *)
(* src/main.py): start() launches one _launch_account task per selected    *)
(* account; each task passes the semaphore and runs account_flow, whose    *)
(* phases call _execute_with_retries and report_success / report_error.    *)
(* The selection of the accounts (_get_accounts_to_process, _cycle_list)    *)
(* and the retry loops of MonadXYZ (src/src/model/monad_xyz/instance.py)   *)
(* have specifications of their own.                                       *)
(***************************************************************************)
EXTENDS Integers, Sequences, FiniteSets, TLC

(* ------------------------------ bounds -------------------------------- *)
MaxAccounts == 2
MaxThreads == 2
MaxAttempts == 2
MaxTasks == 2
MaxSwaps == 2

(* ------------------------------- state -------------------------------- *)
VARIABLES
    config,     \* SETTINGS and FLOW read by the code (THREADS, ATTEMPTS, TASKS, pause ranges) and the inputs of the run
    accounts_info, \* what _get_accounts_to_process returned: accounts (keys by their line number), start_index, end_index, order
    cycled_proxies, \* the list _cycle_list returned to start()
    startPc,    \* position of start(): "select", "setup", "no_inputs", "gather", "returned", "raised"
    pc,         \* position of every _launch_account task
    attempt,    \* loop variable of the running _execute_with_retries
    ran,        \* per task: the phase of its latest _execute_with_retries call
    results,    \* per task: what the operation returned at each invocation of that call
    pauses,     \* per task: inter-attempt sleeps performed by that call
    raises,     \* per task: invocations of that call in which the body of the operation raised
    res,        \* per task and phase: value returned by _execute_with_retries
    session,    \* Start.session is set
    planned,    \* invocations of Start.flow that got past the session check
    plans,      \* per task: planned_tasks of each of those invocations
    executed,   \* per task: tasks the latest invocation of Start.flow executed, with their outcome
    sleeps,     \* per task: inter-task sleeps the latest invocation of Start.flow performed
    reports,    \* per task: calls of report_success / report_error
    exc,        \* per task: where the exception caught by account_flow was raised
    trace,      \* per task: the steps of account_flow entered so far, in order
    semaphore,  \* asyncio.Semaphore(THREADS): free slots and FIFO waiters
    admitted,   \* tasks in the order in which they acquired the semaphore
    lock,       \* asyncio.Lock shared by the reporters: 0 or the holding task
    ledger,     \* data/success_data and data/error_data, one sequence per file
    loops       \* the loops of one MonadXYZ: retry (loop variable), failed attempts, pauses after a failed attempt, ret; calls of swapper.swap and those that returned for _retry_swap; the swaps of _izumi_swaps

retryVars == <<attempt, ran, results, pauses, raises, res>>

flowVars == <<planned, plans, executed, sleeps>>

inputs == <<config, accounts_info>>

(* the state of start() and of its tasks *)
orchestration == <<inputs, cycled_proxies, startPc, pc, retryVars, session, flowVars,
                   reports, exc, trace, semaphore, admitted, lock, ledger>>

vars == <<orchestration, loops>>

(* The two tuples a pause range can be: random.randint(a, b) raises        *)
(* ValueError when a > b.                                                  *)
PauseRanges == {<<0, 1>>, <<1, 0>>}

Phases == {"init", "flow"}

(* the methods of MonadXYZ that retry on their own *)
Loops == {"_retry_swap", "_collect_all_to_monad", "connect_discord"}

Files == {"account_indices", "proxies", "discord_tokens"}

Tasks == 1..config.accounts

Terminal == {"done", "raised", "cancelled"}

(* positions at which a task holds a semaphore slot *)
Inside == {"warmup", "init", "flow", "report", "reportLocked", "cooldown",
           "handler", "handlerLocked"}

(* ------------------------- helpers of the code ------------------------ *)

(* a file of m lines, read_txt_file drops blank lines: entries 1..m *)
Ids(m) == [i \in 1..m |-> i]

(* items[:length]: the list cut to the length, never extended *)
Truncated(items, length) ==
    [i \in 1..(IF length < Len(items) THEN length ELSE Len(items)) |-> items[i]]

(* [items[i % len(items)] for i in range(length)] *)
CycleList(items, length) == [i \in 1..length |-> items[((i - 1) % Len(items)) + 1]]

(* ------------------------ _get_accounts_to_process -------------------- *)

Min2(a, b) == IF a < b THEN a ELSE b

Max2(a, b) == IF a > b THEN a ELSE b

(* min(...) and max(...) of a non-empty list *)
MinOf(s) == CHOOSE x \in {s[i] : i \in 1..Len(s)} : \A i \in 1..Len(s) : x <= s[i]

MaxOf(s) == CHOOSE x \in {s[i] : i \in 1..Len(s)} : \A i \in 1..Len(s) : x >= s[i]

(* items[lo:hi] for lo, hi >= 0 *)
Slice(items, lo, hi) == [i \in 1..Max2(0, Min2(hi, Len(items)) - lo) |-> items[lo + i]]

(* if start_idx == 0 and end_idx == 0 *)
Degenerate(range) == range[1] = 0 /\ range[2] = 0

(* the comprehension without its lower check: index -1 is the last key     *)
NoLowerCheck(exact, m) ==
    LET kept == SelectSeq(exact, LAMBDA i : i - 1 < m)
    IN [k \in 1..Len(kept) |-> IF kept[k] >= 1 THEN kept[k] ELSE m]

(* [private_keys[i] for i in indices if 0 <= i < len(private_keys)] with   *)
(* indices = [i - 1 for i in EXACT_ACCOUNTS_TO_USE]                        *)
ExactAccounts(exact, m) == SelectSeq(exact, LAMBDA i : 0 <= i - 1 /\ i - 1 < m)

(* a slice that starts at start_idx *)
RangeFromStart(keys, range) == Slice(keys, range[1], range[2])

(* private_keys[max(0, start_idx - 1):end_idx] *)
RangeAccounts(keys, range) == Slice(keys, Max2(0, range[1] - 1), range[2])

(* bounds reported as the first and the last position of the key file *)
AllBoundsFromZero(m) == <<0, m>>

(* start_idx, end_idx = 1, len(private_keys) *)
AllBounds(m) == <<1, m>>

(* the accounts selected from private_keys, before the shuffle *)
Selected(m, range, exact) ==
    IF Degenerate(range)
    THEN IF exact # <<>> THEN ExactAccounts(exact, m) ELSE Ids(m)
    ELSE RangeAccounts(Ids(m), range)

(* start_idx, end_idx after the selection *)
Bounds(m, range, exact) ==
    IF Degenerate(range)
    THEN IF exact # <<>> THEN <<MinOf(exact), MaxOf(exact)>> ELSE AllBounds(m)
    ELSE range

(* every index drawn on its own: an index can come twice *)
DrawnIndices(n) == [1..n -> 1..n]

(* indices = list(range(n)); random.shuffle(indices): entry i + 1 *)
Shuffles(n) == Permutations(1..n)

(* the AccountsInfo object for one outcome of the shuffle *)
GetAccountsToProcess(m, range, exact, indices) ==
    LET accounts == Selected(m, range, exact)
        bounds == Bounds(m, range, exact)
    IN [accounts |-> [i \in 1..Len(accounts) |-> accounts[indices[i]]],
        start_index |-> bounds[1],
        end_index |-> bounds[2],
        order |-> [i \in 1..Len(accounts) |-> bounds[1] + (indices[i] - 1)]]

(* _load_file(..., optional=True) or [""] * n; 0 stands for "" *)
OrPlaceholders(loaded, n) == IF loaded # <<>> THEN loaded ELSE [i \in 1..n |-> 0]

(* index=accounts_info.start_index + idx, idx 0-based *)
AccountIndex(p) == accounts_info.start_index + (p - 1)

(* discord_tokens[idx] *)
DiscordToken(p) == OrPlaceholders(config.discord_tokens, config.accounts)[p]

(* proxy=cycled_proxies[idx]: never empty, read_txt_file drops blank lines *)
Proxy(p) == cycled_proxies[p]

(* the early returns of start(): not proxies, not private_keys, *)
(* not accounts_info.accounts; the proxies are not checked *)
NoInputsProxiesUnchecked(c) == c.private_keys = 0 \/ c.accounts = 0

(* the early returns of start(): not proxies, not private_keys, *)
(* not accounts_info.accounts *)
NoInputs(c) == c.proxies = <<>> \/ c.private_keys = 0 \/ c.accounts = 0

(* batch positions whose discord_tokens[idx] or emails[idx] raises           *)
(* IndexError: a loaded list is used as it is, only proxies are cycled     *)
MissingEntries(c) ==
    {p \in 1..c.accounts :
        \/ p > Len(OrPlaceholders(c.discord_tokens, c.accounts))
        \/ p > Len(OrPlaceholders(c.emails, c.accounts))}

(* the list comprehension of start() raises: i % len(items) with no        *)
(* proxies, or an index past the end of a loaded list                      *)
BatchRaises(c) == (c.accounts > 0 /\ c.proxies = <<>>) \/ MissingEntries(c) # {}

(* tasks asyncio.create_task made before the comprehension raised *)
CreatedBeforeRaise(c) ==
    IF c.proxies = <<>> THEN {}
    ELSE {p \in 1..c.accounts : \A q \in MissingEntries(c) : p < q}

RandintRaises(range) == range[1] > range[2]

(* a value an operation returns: its Python type and its items; an atom    *)
(* has one item, "True" and "False" are the two bool objects               *)
PyValue(type, items) == [type |-> type, items |-> items]

Bool(b) == PyValue("bool", <<IF b THEN "True" ELSE "False">>)

(* what the initialize and flow of Start return *)
Booleans == {Bool(TRUE), Bool(FALSE)}

(* True, False, None, 1, "ok", [True], (True,), (True, False), (False,),   *)
(* (1,), ()                                                                *)
ReturnValues ==
    Booleans \cup
    {PyValue("NoneType", <<"None">>), PyValue("int", <<"1">>), PyValue("str", <<"ok">>),
     PyValue("list", <<"True">>), PyValue("tuple", <<"True">>),
     PyValue("tuple", <<"True", "False">>), PyValue("tuple", <<"False">>),
     PyValue("tuple", <<"1">>), PyValue("tuple", <<>>)}

(* result[0] of an empty tuple: IndexError *)
IndexRaises(result) == result.type = "tuple" /\ result.items = <<>>

(* isinstance(result, tuple) and result[0] is True, or                     *)
(* isinstance(result, bool) and result                                     *)
IsSuccess(result) ==
    \/ result.type = "tuple" /\ result.items[1] = "True"
    \/ result.type = "bool" /\ result.items[1] = "True"

(* range(ATTEMPTS) running one iteration too far *)
InRangeInclusive(a, n) == a <= n

(* for attempt in range(ATTEMPTS) *)
InRange(a, n) == a < n

(* the pause condition off by one: a sleep after the final attempt too *)
ShouldPauseAfterLast(a, n) == a < n

(* if attempt < ATTEMPTS - 1 *)
ShouldPause(a, n) == a < n - 1

(* Start.flow without its session check *)
NotSessionUnchecked(s) == FALSE

(* if not self.session *)
NotSession(s) == s = FALSE

(* except Exception in Start.initialize and Start.flow: whatever the body  *)
(* raised is caught and the operation returns False                        *)
Caught(raised) == raised

(* the call wrapped in a try that turns an exception into a failed attempt *)
PropagatesNever(raised) == FALSE

(* result = await function() is not inside a try: an exception of the      *)
(* operation leaves _execute_with_retries                                  *)
Propagates(raised) == raised

(* a gate that admits every caller *)
CanAcquireUnbounded(sem) == TRUE

(* Semaphore.acquire returns at once iff a slot is free and nobody waits *)
CanAcquire(sem) == sem.value > 0 /\ sem.waiters = <<>>

(* a lock that is never taken *)
LockFreeAlways(l) == TRUE

(* Lock.acquire returns iff the lock is not held *)
LockFree(l) == l = 0

(* every entry of files_data written, an empty token as an empty line *)
FilesDataUnfiltered(p) ==
    <<[file |-> "account_indices", data |-> AccountIndex(p)],
      [file |-> "proxies", data |-> Proxy(p)],
      [file |-> "discord_tokens", data |-> DiscordToken(p)]>>

(* the lines one report call writes, in dictionary order, skipping empty data *)
FilesData(p) ==
    <<[file |-> "account_indices", data |-> AccountIndex(p)],
      [file |-> "proxies", data |-> Proxy(p)]>>
    \o (IF DiscordToken(p) # 0
        THEN <<[file |-> "discord_tokens", data |-> DiscordToken(p)]>>
        ELSE <<>>)

(* how many lines a report call appends: none when os.makedirs or the      *)
(* first open raises OSError, all of them when the call completes          *)
WritePoints(lines) == {0, Len(lines)}

RECURSIVE AppendLines(_, _, _)
AppendLines(dir, lines, k) ==
    IF k = 0 THEN dir
    ELSE LET d == AppendLines(dir, lines, k - 1)
         IN [d EXCEPT ![lines[k].file] = Append(@, lines[k].data)]

(* --------------------------- tasks of a flow -------------------------- *)

(* task names: the two with a handler in _execute_task and one without *)
TaskNames == {"izumi", "logs", "other"}

(* an item of FLOW.TASKS: a name (a set of one) or a list of alternatives *)
TaskItems == {{"izumi"}, {"logs"}, {"other"}, {"izumi", "logs"}}

TaskLists == UNION {[1..n -> TaskItems] : n \in 1..MaxTasks}

(* planned_tasks: the item itself, or random.choice(item) for a list *)
Plans(items) ==
    {plan \in [1..Len(items) -> TaskNames] : \A i \in 1..Len(items) : plan[i] \in items[i]}

(* how _execute_task can end: monad.swaps returns a bool and catches every *)
(* exception, _logs_task returns or re-raises, an unknown name is logged   *)
TaskOutcomes(task) ==
    IF task = "izumi" THEN {"true", "false"}
    ELSE IF task = "logs" THEN {"done", "raise"}
    ELSE {"unknown"}

Outcomes(plan) ==
    {o \in [1..Len(plan) -> {"true", "false", "done", "raise", "unknown"}] :
        \A i \in 1..Len(plan) : o[i] \in TaskOutcomes(plan[i])}

(* a task that returned False ends the loop as well *)
AbortsOnFalse(outcome) == outcome \in {"raise", "false"}

(* await self._execute_task(task, monad) leaves the loop of flow iff the   *)
(* task raises; what the handler returns is not looked at                  *)
Aborts(outcome) == outcome = "raise"

(* the loop `for _, task in planned_tasks` from its i-th task on *)
RECURSIVE ExecuteTasks(_, _, _, _)
ExecuteTasks(plan, outs, i, acc) ==
    IF i > Len(plan) THEN acc
    ELSE LET done == [acc EXCEPT !.executed =
                         Append(@, [task |-> plan[i], outcome |-> outs[i]])]
         IN IF Aborts(outs[i]) \/ RandintRaises(config.RANDOM_PAUSE_BETWEEN_ACTIONS)
            THEN [done EXCEPT !.raised = TRUE]
            ELSE ExecuteTasks(plan, outs, i + 1, [done EXCEPT !.sleeps = @ + 1])

(* ------------------------------- Init --------------------------------- *)

(* the pause ranges of a configuration that random.randint rejects *)
InvalidPauses(c) ==
    {name \in {"RANDOM_INITIALIZATION_PAUSE", "PAUSE_BETWEEN_ATTEMPTS",
               "RANDOM_PAUSE_BETWEEN_ACCOUNTS", "RANDOM_PAUSE_BETWEEN_ACTIONS"} :
        RandintRaises(c[name])}

(* the configurations and input files of a run: the selection is part of   *)
(* the loaded keys, at most one pause range is invalid                     *)
Configs(threads, attempts, proxyLines, tokenLines, taskLists, pauseRanges, actionPauses) ==
    {c \in [accounts : 0..MaxAccounts,
            private_keys : 0..MaxAccounts,
            proxies : {Ids(m) : m \in proxyLines},
            discord_tokens : {Ids(m) : m \in tokenLines},
            emails : {<<>>, Ids(1)},
            start_index : {1},
            THREADS : threads,
            ATTEMPTS : attempts,
            TASKS : taskLists,
            RANDOM_INITIALIZATION_PAUSE : pauseRanges,
            PAUSE_BETWEEN_ATTEMPTS : pauseRanges,
            RANDOM_PAUSE_BETWEEN_ACCOUNTS : pauseRanges,
            RANDOM_PAUSE_BETWEEN_ACTIONS : actionPauses] :
        c.accounts <= c.private_keys /\ Cardinality(InvalidPauses(c)) <= 1}

(* a retry loop at `for retry in range(ATTEMPTS)`, nothing attempted yet *)
FreshLoop == [retry |-> 0, failed |-> 0, pauses |-> 0, ret |-> "running"]

(* a call of _retry_swap that has not called swapper.swap yet *)
FreshSwap == FreshLoop @@ [calls |-> 0, swapped |-> 0]

(* the retry loops, and _izumi_swaps in its first iteration with           *)
(* number_of_swaps = n: swap_num is the loop variable, returned the        *)
(* results of the calls of _retry_swap so far                              *)
InitLoops(n) ==
    [l \in Loops \cup {"_izumi_swaps"} |->
        IF l = "_izumi_swaps"
        THEN [number_of_swaps |-> n, swap_num |-> 0, returned |-> <<>>, ret |-> "running"]
        ELSE IF l = "_retry_swap" THEN FreshSwap ELSE FreshLoop]

(* number_of_swaps: random.randint over FLOW.NUMBER_OF_SWAPS, for the      *)
(* draws that enter the loop                                               *)
SwapCounts(c) ==
    IF "NUMBER_OF_SWAPS" \in DOMAIN c
    THEN {n \in c.NUMBER_OF_SWAPS[1]..c.NUMBER_OF_SWAPS[2] : n >= 1}
    ELSE {1}

(* state of the tasks and of the shared objects before start() made them *)
InitTasks(c) ==
    /\ config = c
    /\ loops \in {InitLoops(n) : n \in SwapCounts(c)}
    /\ cycled_proxies = <<>>
    /\ pc = [p \in Tasks |-> "none"]
    /\ attempt = [p \in Tasks |-> 0]
    /\ ran = [p \in Tasks |-> "none"]
    /\ results = [p \in Tasks |-> <<>>]
    /\ pauses = [p \in Tasks |-> 0]
    /\ raises = [p \in Tasks |-> 0]
    /\ res = [p \in Tasks |-> [ph \in Phases |-> "none"]]
    /\ session = [p \in Tasks |-> FALSE]
    /\ planned = [p \in Tasks |-> 0]
    /\ plans = [p \in Tasks |-> <<>>]
    /\ executed = [p \in Tasks |-> <<>>]
    /\ sleeps = [p \in Tasks |-> 0]
    /\ reports = [p \in Tasks |-> [success |-> 0, error |-> 0]]
    /\ exc = [p \in Tasks |-> "none"]
    /\ trace = [p \in Tasks |-> <<>>]
    /\ semaphore = [value |-> 0, waiters |-> <<>>]
    /\ admitted = <<>>
    /\ lock = 0
    /\ ledger = [root \in {"success_data", "error_data"} |-> [f \in Files |-> <<>>]]

(* start() has selected the accounts: the first c.accounts keys, launched  *)
(* in file order                                                           *)
InitState(c) ==
    /\ startPc = "setup"
    /\ accounts_info = GetAccountsToProcess(c.private_keys, <<c.start_index, c.accounts>>,
                                            <<>>, Ids(c.accounts))
    /\ InitTasks(c)

(* every gate width, the smallest and the largest attempt budget, a token  *)
(* file with lines, one task list and a valid pause between the tasks      *)
Init ==
    \E c \in Configs(1..MaxThreads, {1, MaxAttempts}, {0, MaxAccounts}, 1..MaxAccounts,
                     {<<{"logs"}>>}, PauseRanges, {<<0, 1>>}) :
        InitState(c)

(* a gate of one slot, every attempt budget, a token file with or without *)
(* lines; every task list and both pause ranges between the tasks for one  *)
(* account, one task list for more accounts                                *)
InitFlow ==
    \E c \in Configs({1}, 1..MaxAttempts, {0, MaxAccounts}, 0..MaxAccounts, TaskLists,
                     {<<0, 1>>}, PauseRanges) :
        /\ c.accounts > 1 => (c.TASKS = <<{"logs"}>> /\ c.RANDOM_PAUSE_BETWEEN_ACTIONS = <<0, 1>>)
        /\ InitState(c)

(* a gate of one slot, every attempt budget and pause range *)
InitRetry ==
    \E c \in Configs({1}, 1..MaxAttempts, {0, MaxAccounts}, 1..MaxAccounts, {<<{"logs"}>>},
                     PauseRanges, {<<0, 1>>}) :
        InitState(c)

(* EXACT_ACCOUNTS_TO_USE: lists of distinct positions, some past the file  *)
ExactLists ==
    UNION {{e \in [1..k -> 0..(MaxAccounts + 1)] :
               \A i, j \in 1..k : i # j => e[i] # e[j]} : k \in 0..MaxAccounts}

(* ACCOUNTS_RANGE: pairs of naturals, some past the file *)
Ranges == (0..(MaxAccounts + 1)) \X (0..(MaxAccounts + 1))

(* key and proxy files of 1..MaxAccounts lines with every range, and every *)
(* explicit list when the range is (0, 0); c.accounts is the number of     *)
(* accounts the selection yields                                           *)
SelectConfigs ==
    {c @@ [ACCOUNTS_RANGE |-> r, EXACT_ACCOUNTS_TO_USE |-> e] :
        <<c, r, e>> \in
            {x \in Configs({1}, {1}, 1..MaxAccounts, {0}, {<<{"logs"}>>}, {<<0, 1>>},
                           {<<0, 1>>})
                   \X Ranges \X ExactLists :
                /\ x[1].private_keys > 0 /\ x[1].emails = <<>>
                /\ x[1].accounts = Len(Selected(x[1].private_keys, x[2], x[3]))
                /\ ~Degenerate(x[2]) => x[3] \in {<<>>, <<1>>}}}

(* start() has loaded the proxies and the keys and is about to select *)
InitSelect ==
    \E c \in SelectConfigs :
        /\ startPc = "select"
        /\ accounts_info = [accounts |-> <<>>, start_index |-> 0, end_index |-> 0,
                            order |-> <<>>]
        /\ InitTasks(c)

(* one account, every attempt budget, valid pause ranges *)
InitResult ==
    \E c \in Configs({1}, 1..MaxAttempts, {MaxAccounts}, {0}, {<<{"logs"}>>}, {<<0, 1>>},
                     {<<0, 1>>}) :
        /\ c.accounts = 1 /\ c.private_keys = 1 /\ c.emails = <<>>
        /\ InitState(c)

(* one MonadXYZ with every attempt budget; at most one of the pause ranges *)
(* its loops sample is invalid                                             *)
InitMonad ==
    \E c \in Configs({1}, 1..MaxAttempts, {MaxAccounts}, {0}, {<<{"izumi"}>>}, PauseRanges,
                     PauseRanges) :
        \E swaps \in PauseRanges :
            /\ c.accounts = 1 /\ c.private_keys = 1 /\ c.emails = <<>>
            /\ ~RandintRaises(c.RANDOM_INITIALIZATION_PAUSE)
            /\ ~RandintRaises(c.RANDOM_PAUSE_BETWEEN_ACCOUNTS)
            /\ RandintRaises(swaps) => InvalidPauses(c) = {}
            /\ InitState(c @@ [PAUSE_BETWEEN_SWAPS |-> swaps,
                               NUMBER_OF_SWAPS |-> <<1, MaxSwaps>>])

(* ------------------------------ start() ------------------------------- *)

(* accounts_info = _get_accounts_to_process(config, private_keys) *)
get_accounts_to_process ==
    /\ startPc = "select"
    /\ \E indices \in Shuffles(config.accounts) :
          accounts_info' = GetAccountsToProcess(config.private_keys, config.ACCOUNTS_RANGE,
                                                config.EXACT_ACCOUNTS_TO_USE, indices)
    /\ startPc' = "setup"
    /\ UNCHANGED <<loops, config, cycled_proxies, pc, retryVars, session, flowVars, reports, exc, trace,
                   semaphore, admitted, lock, ledger>>

(* no proxies, no private keys or no selected account: start() returns *)
start_no_inputs ==
    /\ startPc = "setup"
    /\ NoInputs(config)
    /\ startPc' = "no_inputs"
    /\ UNCHANGED <<loops, inputs, cycled_proxies, pc, retryVars, session, flowVars, reports, exc, trace,
                   semaphore, admitted, lock, ledger>>

(* building the task list raises: start() and main() end with the          *)
(* exception, the tasks made so far have not run a step                    *)
start_batch_fails ==
    /\ startPc = "setup"
    /\ ~NoInputs(config)
    /\ BatchRaises(config)
    /\ startPc' = "raised"
    /\ cycled_proxies' = IF config.proxies = <<>> THEN <<>>
                         ELSE CycleList(config.proxies, config.accounts)
    /\ semaphore' = [value |-> config.THREADS, waiters |-> <<>>]
    /\ pc' = [p \in Tasks |-> IF p \in CreatedBeforeRaise(config) THEN "created" ELSE "none"]
    /\ UNCHANGED <<loops, inputs, retryVars, session, flowVars, reports, exc, trace,
                   admitted, lock, ledger>>

(* semaphore, lock and the task list are created; gather is awaited *)
start_create_tasks ==
    /\ startPc = "setup"
    /\ ~NoInputs(config)
    /\ ~BatchRaises(config)
    /\ startPc' = "gather"
    /\ cycled_proxies' = CycleList(config.proxies, config.accounts)
    /\ semaphore' = [value |-> config.THREADS, waiters |-> <<>>]
    /\ pc' = [p \in Tasks |-> "created"]
    /\ UNCHANGED <<loops, inputs, retryVars, session, flowVars, reports, exc, trace,
                   admitted, lock, ledger>>

(* leaving `async with semaphore`: the slot goes to the first waiter, or back *)
Release(p, final) ==
    IF semaphore.waiters # <<>>
    THEN /\ semaphore' = [semaphore EXCEPT !.waiters = Tail(@)]
         /\ pc' = [pc EXCEPT ![p] = final, ![Head(semaphore.waiters)] = "warmup"]
         /\ admitted' = Append(admitted, Head(semaphore.waiters))
    ELSE /\ semaphore' = [semaphore EXCEPT !.value = @ + 1]
         /\ pc' = [pc EXCEPT ![p] = final]
         /\ admitted' = admitted

(* the tasks run their first step in any order *)
StartsAny(p) == TRUE

(* the event loop runs the first step of the tasks in creation order *)
StartsNext(p) == \A q \in Tasks : q < p => pc[q] # "created"

(* first step of a task: async with semaphore *)
launch_account(p) ==
    /\ startPc = "gather"
    /\ pc[p] = "created"
    /\ StartsNext(p)
    /\ IF CanAcquire(semaphore)
       THEN /\ semaphore' = [semaphore EXCEPT !.value = @ - 1]
            /\ pc' = [pc EXCEPT ![p] = "warmup"]
            /\ admitted' = Append(admitted, p)
       ELSE /\ semaphore' = [semaphore EXCEPT !.waiters = Append(@, p)]
            /\ pc' = [pc EXCEPT ![p] = "waiting"]
            /\ admitted' = admitted
    /\ UNCHANGED <<loops, inputs, cycled_proxies, startPc, retryVars, session, flowVars, reports, exc,
                   trace, lock, ledger>>

(* --------------------------- account_flow ----------------------------- *)

(* _random_sleep(RANDOM_INITIALIZATION_PAUSE), then Start(...) is built *)
warm_up(p) ==
    /\ pc[p] = "warmup"
    /\ trace' = [trace EXCEPT ![p] = Append(@, "warmup")]
    /\ IF RandintRaises(config.RANDOM_INITIALIZATION_PAUSE)
       THEN /\ pc' = [pc EXCEPT ![p] = "handler"]
            /\ exc' = [exc EXCEPT ![p] = "warmup"]
       ELSE /\ pc' = [pc EXCEPT ![p] = "init"]
            /\ exc' = exc
    /\ attempt' = [attempt EXCEPT ![p] = 0]
    /\ UNCHANGED <<loops, inputs, cycled_proxies, startPc, ran, results, pauses, raises,
                   res, session, flowVars, reports, semaphore, admitted, lock, ledger>>

(* one iteration of the loop of _execute_with_retries around an operation  *)
(* that returned result; next is where account_flow continues              *)
execute_with_retries(p, phase, result, next) ==
    LET first == ran[p] # phase
        r == IF first THEN <<>> ELSE results[p]
        s == IF first THEN 0 ELSE pauses[p]
    IN /\ ran' = [ran EXCEPT ![p] = phase]
       /\ results' = [results EXCEPT ![p] = Append(r, result)]
       /\ IF IndexRaises(result)
          THEN /\ pc' = [pc EXCEPT ![p] = "handler"]
               /\ exc' = [exc EXCEPT ![p] = phase]
               /\ pauses' = [pauses EXCEPT ![p] = s]
               /\ UNCHANGED <<res, attempt>>
          ELSE IF IsSuccess(result)
          THEN /\ res' = [res EXCEPT ![p][phase] = "true"]
               /\ pc' = [pc EXCEPT ![p] = next]
               /\ attempt' = [attempt EXCEPT ![p] = 0]
               /\ pauses' = [pauses EXCEPT ![p] = s]
               /\ exc' = exc
          ELSE IF ShouldPause(attempt[p], config.ATTEMPTS)
                  /\ RandintRaises(config.PAUSE_BETWEEN_ATTEMPTS)
          THEN /\ pc' = [pc EXCEPT ![p] = "handler"]
               /\ exc' = [exc EXCEPT ![p] = phase]
               /\ pauses' = [pauses EXCEPT ![p] = s]
               /\ UNCHANGED <<res, attempt>>
          ELSE /\ pauses' = [pauses EXCEPT ![p] =
                                IF ShouldPause(attempt[p], config.ATTEMPTS)
                                THEN s + 1 ELSE s]
               /\ exc' = exc
               /\ IF InRange(attempt[p] + 1, config.ATTEMPTS)
                  THEN /\ attempt' = [attempt EXCEPT ![p] = @ + 1]
                       /\ UNCHANGED <<res, pc>>
                  ELSE /\ res' = [res EXCEPT ![p][phase] = "false"]
                       /\ pc' = [pc EXCEPT ![p] = next]
                       /\ attempt' = [attempt EXCEPT ![p] = 0]

(* `result = await function()` raises: _execute_with_retries has no try,   *)
(* the exception reaches the handler of account_flow                       *)
raise_through(p, phase) ==
    /\ ran' = [ran EXCEPT ![p] = phase]
    /\ results' = [results EXCEPT ![p] = IF ran[p] # phase THEN <<>> ELSE @]
    /\ pauses' = [pauses EXCEPT ![p] = IF ran[p] # phase THEN 0 ELSE @]
    /\ pc' = [pc EXCEPT ![p] = "handler"]
    /\ exc' = [exc EXCEPT ![p] = phase]
    /\ UNCHANGED <<res, attempt>>

(* one invocation of an operation by _execute_with_retries: the operation *)
(* raised, or returned result                                              *)
invoke(p, phase, raised, result, next) ==
    /\ trace' = [trace EXCEPT ![p] = IF ran[p] # phase THEN Append(@, phase) ELSE @]
    /\ raises' = [raises EXCEPT ![p] =
                     (IF ran[p] # phase THEN 0 ELSE @) + (IF raised THEN 1 ELSE 0)]
    /\ IF Propagates(raised)
       THEN raise_through(p, phase)
       ELSE execute_with_retries(p, phase, IF raised THEN Bool(FALSE) ELSE result, next)

(* _execute_with_retries around any operation: an invocation returns one   *)
(* of the values or raises                                                 *)
operation(p, values) ==
    /\ pc[p] \in Phases
    /\ \E raised \in BOOLEAN, result \in values :
          invoke(p, pc[p], raised, result, IF pc[p] = "init" THEN "flow" ELSE "report")
    /\ UNCHANGED <<loops, inputs, cycled_proxies, startPc, session, flowVars, reports, semaphore, admitted,
                   lock, ledger>>

(* Start.initialize: create_client returns a session or raises *)
initialize(p) ==
    /\ pc[p] = "init"
    /\ \E created \in BOOLEAN :
          /\ session' = [session EXCEPT ![p] = @ \/ created]
          /\ invoke(p, "init", ~created /\ ~Caught(~created), Bool(created), "flow")
    /\ UNCHANGED <<loops, inputs, cycled_proxies, startPc, flowVars, reports, semaphore, admitted, lock, ledger>>

(* Start.flow: False without a session; else the tasks are planned and     *)
(* executed, True unless something raised                                  *)
flow(p) ==
    /\ pc[p] = "flow"
    /\ IF NotSession(session[p])
       THEN /\ UNCHANGED <<planned, plans>>
            /\ executed' = [executed EXCEPT ![p] = <<>>]
            /\ sleeps' = [sleeps EXCEPT ![p] = 0]
            /\ invoke(p, "flow", FALSE, Bool(FALSE), "report")
       ELSE \E plan \in Plans(config.TASKS) : \E outs \in Outcomes(plan) :
               LET run == ExecuteTasks(plan, outs, 1,
                                       [executed |-> <<>>, sleeps |-> 0, raised |-> FALSE])
               IN /\ planned' = [planned EXCEPT ![p] = @ + 1]
                  /\ plans' = [plans EXCEPT ![p] = Append(@, plan)]
                  /\ executed' = [executed EXCEPT ![p] = run.executed]
                  /\ sleeps' = [sleeps EXCEPT ![p] = run.sleeps]
                  /\ invoke(p, "flow", run.raised /\ ~Caught(run.raised),
                            Bool(~run.raised), "report")
    /\ UNCHANGED <<loops, inputs, cycled_proxies, startPc, session, reports, semaphore, admitted, lock, ledger>>

(* success = initialize result, success &= flow result *)
Success(p) == res[p]["init"] = "true" /\ res[p]["flow"] = "true"

(* report_success / report_error is called and takes the lock *)
report_acquire(p) ==
    /\ pc[p] = "report"
    /\ LockFree(lock)
    /\ lock' = p
    /\ pc' = [pc EXCEPT ![p] = "reportLocked"]
    /\ trace' = [trace EXCEPT ![p] = Append(@, "report")]
    /\ reports' = [reports EXCEPT ![p] =
                      IF Success(p) THEN [@ EXCEPT !.success = @ + 1]
                                    ELSE [@ EXCEPT !.error = @ + 1]]
    /\ UNCHANGED <<loops, inputs, cycled_proxies, startPc, retryVars, session, flowVars, exc, semaphore,
                   admitted, ledger>>

(* the semaphore is released as soon as the report has returned *)
AfterReportReleasing(p) == Release(p, "cooldown")

(* the report call returned: account_flow goes on to the cooldown pause,   *)
(* still inside `async with semaphore`                                     *)
AfterReport(p) ==
    /\ pc' = [pc EXCEPT ![p] = "cooldown"]
    /\ UNCHANGED <<semaphore, admitted>>

(* the body under the lock: makedirs and the appends; an OSError after k   *)
(* appends leaves the first k lines written                                *)
report_write(p) ==
    /\ pc[p] = "reportLocked"
    /\ lock' = 0
    /\ LET root == IF Success(p) THEN "success_data" ELSE "error_data"
           lines == FilesData(p)
       IN \E k \in WritePoints(lines) :
             /\ ledger' = [ledger EXCEPT ![root] = AppendLines(@, lines, k)]
             /\ IF k = Len(lines)
                THEN /\ AfterReport(p)
                     /\ exc' = exc
                ELSE /\ pc' = [pc EXCEPT ![p] = "handler"]
                     /\ exc' = [exc EXCEPT ![p] = "report"]
                     /\ UNCHANGED <<semaphore, admitted>>
    /\ UNCHANGED <<loops, inputs, cycled_proxies, startPc, retryVars, session, flowVars, reports, trace>>

(* _random_sleep(RANDOM_PAUSE_BETWEEN_ACCOUNTS); after the sleep            *)
(* account_flow returns and the semaphore is released                      *)
cooldown(p) ==
    /\ pc[p] = "cooldown"
    /\ trace' = [trace EXCEPT ![p] = Append(@, "cooldown")]
    /\ IF RandintRaises(config.RANDOM_PAUSE_BETWEEN_ACCOUNTS)
       THEN /\ pc' = [pc EXCEPT ![p] = "handler"]
            /\ exc' = [exc EXCEPT ![p] = "cooldown"]
            /\ UNCHANGED <<semaphore, admitted>>
       ELSE /\ Release(p, "done")
            /\ exc' = exc
    /\ UNCHANGED <<loops, inputs, cycled_proxies, startPc, retryVars, session, flowVars, reports, lock, ledger>>

(* except Exception: report_error is called and takes the lock *)
handler_acquire(p) ==
    /\ pc[p] = "handler"
    /\ LockFree(lock)
    /\ lock' = p
    /\ pc' = [pc EXCEPT ![p] = "handlerLocked"]
    /\ trace' = [trace EXCEPT ![p] = Append(@, "report")]
    /\ reports' = [reports EXCEPT ![p].error = @ + 1]
    /\ UNCHANGED <<loops, inputs, cycled_proxies, startPc, retryVars, session, flowVars, exc, semaphore,
                   admitted, ledger>>

(* report_error in the handler: nothing follows it in account_flow, the    *)
(* task leaves `async with semaphore`; when it raises, the task ends with  *)
(* the exception                                                           *)
handler_write(p) ==
    /\ pc[p] = "handlerLocked"
    /\ lock' = 0
    /\ LET lines == FilesData(p)
       IN \E k \in WritePoints(lines) :
             /\ ledger' = [ledger EXCEPT !["error_data"] = AppendLines(@, lines, k)]
             /\ Release(p, IF k = Len(lines) THEN "done" ELSE "raised")
    /\ UNCHANGED <<loops, inputs, cycled_proxies, startPc, retryVars, session, flowVars, reports, exc, trace>>

(* ------------------------ retry loops of MonadXYZ --------------------- *)

(* the loop ends when range(ATTEMPTS) is used up: return False *)
NextRetryOf(l, retry) ==
    [l EXCEPT !.retry = retry,
              !.ret = IF InRange(retry, config.ATTEMPTS) THEN "running" ELSE "false"]

(* MonadXYZ._retry_swap, one iteration: the swap and the pause between     *)
(* swaps are inside the try; the except branch logs, returns False at the  *)
(* last attempt and does not sleep                                         *)
retry_swap ==
    LET c == loops["_retry_swap"]
    IN /\ c.ret = "running"
       /\ \E swapped \in BOOLEAN :
             LET l == [c EXCEPT !.calls = @ + 1,
                                !.swapped = IF swapped THEN @ + 1 ELSE @]
             IN loops' = [loops EXCEPT !["_retry_swap"] =
                 IF swapped /\ ~RandintRaises(config.PAUSE_BETWEEN_SWAPS)
                 THEN [l EXCEPT !.ret = "true"]
                 ELSE IF l.retry = config.ATTEMPTS - 1
                      THEN [l EXCEPT !.failed = @ + 1, !.ret = "false"]
                      ELSE NextRetryOf([l EXCEPT !.failed = @ + 1], l.retry + 1)]
       /\ UNCHANGED orchestration

(* MonadXYZ._izumi_swaps, the loop after a call of _retry_swap returned:    *)
(* False ends it (return False); after the last swap it returns True;      *)
(* else the arguments of the next call are built (IzumiDex(...),           *)
(* random.randint of the percentage), which may raise, and _retry_swap is  *)
(* called again                                                            *)
izumi_swaps ==
    LET z == loops["_izumi_swaps"]
        l == loops["_retry_swap"]
        got == [z EXCEPT !.returned = Append(@, l.ret)]
    IN /\ z.ret = "running"
       /\ l.ret \in {"true", "false"}
       /\ IF l.ret = "false"
          THEN loops' = [loops EXCEPT !["_izumi_swaps"] = [got EXCEPT !.ret = "false"]]
          ELSE IF z.swap_num + 1 < z.number_of_swaps
          THEN \E built \in BOOLEAN :
                  loops' = IF built
                           THEN [loops EXCEPT !["_izumi_swaps"] =
                                                  [got EXCEPT !.swap_num = @ + 1],
                                              !["_retry_swap"] = FreshSwap]
                           ELSE [loops EXCEPT !["_izumi_swaps"] =
                                                  [got EXCEPT !.swap_num = @ + 1,
                                                              !.ret = "raised"]]
          ELSE loops' = [loops EXCEPT !["_izumi_swaps"] = [got EXCEPT !.ret = "true"]]
       /\ UNCHANGED orchestration

(* MonadXYZ._collect_all_to_monad, one iteration: the four swaps with      *)
(* their pauses are inside the try; the except branch samples              *)
(* PAUSE_BETWEEN_ATTEMPTS and sleeps after every failed attempt            *)
collect_all_to_monad ==
    LET l == loops["_collect_all_to_monad"]
    IN /\ l.ret = "running"
       /\ \E collected \in BOOLEAN :
             loops' = [loops EXCEPT !["_collect_all_to_monad"] =
                 IF collected /\ ~RandintRaises(config.PAUSE_BETWEEN_SWAPS)
                 THEN [l EXCEPT !.ret = "true"]
                 ELSE IF RandintRaises(config.PAUSE_BETWEEN_ATTEMPTS)
                      THEN [l EXCEPT !.failed = @ + 1, !.ret = "raised"]
                      ELSE NextRetryOf([l EXCEPT !.failed = @ + 1, !.pauses = @ + 1],
                                       l.retry + 1)]
       /\ UNCHANGED orchestration

(* MonadXYZ.connect_discord, one iteration: the except branch samples      *)
(* RANDOM_PAUSE_BETWEEN_ACTIONS and sleeps after every failed attempt      *)
connect_discord ==
    LET l == loops["connect_discord"]
    IN /\ l.ret = "running"
       /\ \E connected \in BOOLEAN :
             loops' = [loops EXCEPT !["connect_discord"] =
                 IF connected
                 THEN [l EXCEPT !.ret = "true"]
                 ELSE IF RandintRaises(config.RANDOM_PAUSE_BETWEEN_ACTIONS)
                      THEN [l EXCEPT !.failed = @ + 1, !.ret = "raised"]
                      ELSE NextRetryOf([l EXCEPT !.failed = @ + 1, !.pauses = @ + 1],
                                       l.retry + 1)]
       /\ UNCHANGED orchestration

(* ------------------------ gather and asyncio.run ---------------------- *)

(* every task ended normally: gather returns, the statistics are printed *)
gather_return ==
    /\ startPc = "gather"
    /\ \A p \in Tasks : pc[p] = "done"
    /\ startPc' = "returned"
    /\ UNCHANGED <<loops, inputs, cycled_proxies, pc, retryVars, session, flowVars, reports, exc, trace,
                   semaphore, admitted, lock, ledger>>

(* gather re-raises the first exception of a task; start() and main() end  *)
(* with it                                                                 *)
gather_raise ==
    /\ startPc = "gather"
    /\ \E p \in Tasks : pc[p] = "raised"
    /\ startPc' = "raised"
    /\ UNCHANGED <<loops, inputs, cycled_proxies, pc, retryVars, session, flowVars, reports, exc, trace,
                   semaphore, admitted, lock, ledger>>

(* tasks that were created and have not ended *)
Pending == {p \in Tasks : pc[p] \notin Terminal \cup {"none"}}

(* asyncio.run(main()) cancels the tasks still pending when main() ended;  *)
(* CancelledError is not an Exception, so account_flow does not catch it   *)
run_cancel_pending ==
    /\ startPc = "raised"
    /\ Pending # {}
    /\ pc' = [p \in Tasks |-> IF p \in Pending THEN "cancelled" ELSE pc[p]]
    /\ semaphore' = [value |-> config.THREADS, waiters |-> <<>>]
    /\ lock' = 0
    /\ UNCHANGED <<loops, inputs, cycled_proxies, startPc, retryVars, session, flowVars, reports, exc,
                   trace, admitted, ledger>>

Next ==
    \/ start_no_inputs
    \/ start_batch_fails
    \/ start_create_tasks
    \/ \E p \in Tasks : launch_account(p)
    \/ \E p \in Tasks : warm_up(p)
    \/ \E p \in Tasks : initialize(p)
    \/ \E p \in Tasks : flow(p)
    \/ \E p \in Tasks : report_acquire(p)
    \/ \E p \in Tasks : report_write(p)
    \/ \E p \in Tasks : cooldown(p)
    \/ \E p \in Tasks : handler_acquire(p)
    \/ \E p \in Tasks : handler_write(p)
    \/ gather_return
    \/ gather_raise
    \/ run_cancel_pending

(* account_flow around operations of any kind *)
NextRetry ==
    \/ start_no_inputs
    \/ start_batch_fails
    \/ start_create_tasks
    \/ \E p \in Tasks : launch_account(p)
    \/ \E p \in Tasks : warm_up(p)
    \/ \E p \in Tasks : operation(p, Booleans)
    \/ \E p \in Tasks : report_acquire(p)
    \/ \E p \in Tasks : report_write(p)
    \/ \E p \in Tasks : cooldown(p)
    \/ \E p \in Tasks : handler_acquire(p)
    \/ \E p \in Tasks : handler_write(p)
    \/ gather_return
    \/ gather_raise
    \/ run_cancel_pending

(* start() from the selection of the accounts on *)
NextSelect ==
    \/ get_accounts_to_process
    \/ start_no_inputs
    \/ start_create_tasks
    \/ \E p \in Tasks : launch_account(p)
    \/ \E p \in Tasks : warm_up(p)
    \/ \E p \in Tasks : initialize(p)
    \/ \E p \in Tasks : flow(p)
    \/ \E p \in Tasks : report_acquire(p)
    \/ \E p \in Tasks : report_write(p)
    \/ \E p \in Tasks : cooldown(p)
    \/ \E p \in Tasks : handler_acquire(p)
    \/ \E p \in Tasks : handler_write(p)
    \/ gather_return
    \/ gather_raise
    \/ run_cancel_pending

(* the retry loops of one MonadXYZ *)
NextMonad ==
    \/ retry_swap
    \/ izumi_swaps
    \/ collect_all_to_monad
    \/ connect_discord

(* account_flow of one account around operations that return any value *)
NextResult ==
    \/ start_create_tasks
    \/ \E p \in Tasks : launch_account(p)
    \/ \E p \in Tasks : warm_up(p)
    \/ \E p \in Tasks : operation(p, ReturnValues)
    \/ \E p \in Tasks : report_acquire(p)
    \/ \E p \in Tasks : report_write(p)
    \/ \E p \in Tasks : cooldown(p)
    \/ \E p \in Tasks : handler_acquire(p)
    \/ \E p \in Tasks : handler_write(p)
    \/ gather_return
    \/ gather_raise

Spec == Init /\ [][Next]_vars

SpecResult == InitResult /\ [][NextResult]_vars

SpecMonad == InitMonad /\ [][NextMonad]_vars

SpecSelect == InitSelect /\ [][NextSelect]_vars

SpecRetry == InitRetry /\ [][NextRetry]_vars

SpecFlow == InitFlow /\ [][Next]_vars

(* shape of the state: positions, lock holder, free slots *)
TypeOK ==
    /\ startPc \in {"select", "setup", "no_inputs", "gather", "returned", "raised"}
    /\ \A p \in Tasks : pc[p] \in {"none", "created", "waiting"} \cup Inside \cup Terminal
    /\ lock \in {0} \cup Tasks
    /\ semaphore.value \in 0..config.THREADS

(* ------------------------------ properties ---------------------------- *)

Range(seq) == {seq[i] : i \in 1..Len(seq)}

SuccessIndices == Range(ledger["success_data"]["account_indices"])

ErrorIndices == Range(ledger["error_data"]["account_indices"])

(* tasks that acquired the semaphore and have not released it *)
Holders == {p \in Tasks : pc[p] \in Inside}

(* positions after both _execute_with_retries calls of account_flow returned *)
AfterFlow == {"report", "reportLocked", "cooldown", "done"}

AllFalse(r) == \A i \in 1..Len(r) : r[i] = Bool(FALSE)

(* C1: in every reachable state the number of tasks that hold a semaphore  *)
(* slot (are inside account_flow) is at most THREADS.                      *)
C1_GateBound == Cardinality(Holders) <= config.THREADS

(* more accounts than slots, every slot taken, a task waiting at the gate *)
C1_Witness ==
    /\ config.accounts > config.THREADS
    /\ Cardinality(Holders) = config.THREADS
    /\ semaphore.waiters # <<>>

(* C2: a task whose account_flow has ended made exactly one report call    *)
(* (report_success or report_error) for its account.                       *)
C2_ReportedOnce ==
    \A p \in Tasks :
        pc[p] \in {"done", "raised"} => reports[p].success + reports[p].error = 1

(* C3: no account index is in both the success and the failure index       *)
(* ledger.                                                                 *)
C3_LedgersDisjoint == SuccessIndices \cap ErrorIndices = {}

C5_NoEscape ==
    /\ \A p \in Tasks : pc[p] # "raised"
    /\ startPc # "raised"

(* C6: a task that caught an exception of the warm-up pause, the           *)
(* initialize phase or the flow phase has, when it ends, its index in the  *)
(* failure ledger and not in the success ledger.                           *)
C6_ExceptionRecordsFailure ==
    \A p \in Tasks :
        (exc[p] \in {"warmup", "init", "flow"} /\ pc[p] \in {"done", "raised"})
            => (AccountIndex(p) \in ErrorIndices /\ AccountIndex(p) \notin SuccessIndices)

(* C7 as stated: once initialize has failed on all attempts, Start.flow    *)
(* is never invoked for that account.                                      *)
C7_FlowSkipped ==
    \A p \in Tasks : res[p]["init"] = "false" => ran[p] # "flow"

(* C7 amended: once initialize has failed on all attempts, flow is still   *)
(* invoked ATTEMPTS times, every invocation returns False at the session   *)
(* check without planning a task, and only report_error is called.         *)
C7_FlowGuarded ==
    \A p \in Tasks :
        res[p]["init"] = "false" =>
            /\ planned[p] = 0
            /\ reports[p].success = 0
            /\ AccountIndex(p) \notin SuccessIndices
            /\ pc[p] \in (AfterFlow \cup {"handler", "handlerLocked", "raised"}) =>
                  /\ ran[p] = "flow"
                  /\ Len(results[p]) = config.ATTEMPTS
                  /\ AllFalse(results[p])
                  /\ res[p]["flow"] = "false"
                  /\ pc[p] # "report" => reports[p].error >= 1

(* initialize failed twice, flow was called twice, the failure is recorded *)
C7_Witness ==
    \E p \in Tasks :
        /\ config.ATTEMPTS >= 2
        /\ res[p]["init"] = "false"
        /\ pc[p] = "done"
        /\ Len(results[p]) = config.ATTEMPTS
        /\ AccountIndex(p) \in ErrorIndices

(* C8: when a task has ended, its index is in the success ledger iff both  *)
(* the initialize phase and the flow phase succeeded, and in the failure   *)
(* ledger iff not.                                                         *)
C8_SuccessIffBothPhases ==
    \A p \in Tasks :
        pc[p] \in {"done", "raised"} =>
            /\ AccountIndex(p) \in SuccessIndices <=> Success(p)
            /\ AccountIndex(p) \in ErrorIndices <=> ~Success(p)

(* C9: _execute_with_retries invokes the operation at most ATTEMPTS times, *)
(* never again after a successful invocation, returns True right after a   *)
(* successful invocation and False exactly when ATTEMPTS invocations       *)
(* failed.                                                                 *)
C9_RetryBudget ==
    \A p \in Tasks :
        ran[p] # "none" =>
            LET r == results[p]
                ret == res[p][ran[p]]
            IN /\ Len(r) <= config.ATTEMPTS
               /\ \A i \in 1..(Len(r) - 1) : r[i] = Bool(FALSE)
               /\ ret = "true" <=> r[Len(r)] = Bool(TRUE)
               /\ ret = "false" <=> (Len(r) = config.ATTEMPTS /\ AllFalse(r))

(* one call returned True with attempts to spare, another returned False   *)
(* after ATTEMPTS failures                                                 *)
C9_Witness ==
    \E p, q \in Tasks :
        /\ config.ATTEMPTS >= 2
        /\ ran[p] # "none" /\ ran[q] # "none"
        /\ res[p][ran[p]] = "true" /\ Len(results[p]) < config.ATTEMPTS
        /\ res[q][ran[q]] = "false" /\ Len(results[q]) = config.ATTEMPTS

(* C10: a call that returned True after k failed attempts slept k times, a *)
(* call that returned False slept ATTEMPTS-1 times, and no call sleeps     *)
(* after its final attempt.                                                *)
C10_PauseBetweenAttempts ==
    \A p \in Tasks :
        ran[p] # "none" =>
            LET ret == res[p][ran[p]]
            IN /\ pauses[p] <= config.ATTEMPTS - 1
               /\ ret = "true" => pauses[p] = Len(results[p]) - 1
               /\ ret = "false" => pauses[p] = config.ATTEMPTS - 1
               /\ ret = "none" /\ exc[p] = "none" /\ pc[p] \in {"init", "flow"}
                    => pauses[p] = Len(results[p])

(* fail, ..., fail, success with ATTEMPTS-1 sleeps next to an always       *)
(* failing call with ATTEMPTS-1 sleeps                                     *)
C10_Witness ==
    \E p, q \in Tasks :
        /\ config.ATTEMPTS >= 2
        /\ ran[p] # "none" /\ ran[q] # "none"
        /\ res[p][ran[p]] = "true" /\ Len(results[p]) = config.ATTEMPTS
        /\ pauses[p] = config.ATTEMPTS - 1
        /\ res[q][ran[q]] = "false" /\ pauses[q] = config.ATTEMPTS - 1

(* C11 as stated: an exception of the operation is absorbed by the retry   *)
(* call and never reaches account_flow; only the pause between attempts    *)
(* can end the call with an exception.                                     *)
C11_RaiseAbsorbed ==
    \A p \in Tasks :
        exc[p] \in Phases => RandintRaises(config.PAUSE_BETWEEN_ATTEMPTS)

(* C11 amended: an invocation that raises ends the retry call at once: no  *)
(* pause after it, no further invocation, no return value; account_flow    *)
(* catches the exception and only report_error is called. Invocations      *)
(* that return False are followed by a pause and a new invocation while    *)
(* attempts remain.                                                        *)
C11_RaisePropagates ==
    \A p \in Tasks :
        ran[p] # "none" =>
            /\ raises[p] <= 1
            /\ raises[p] = 1 =>
                  /\ exc[p] = ran[p]
                  /\ res[p][ran[p]] = "none"
                  /\ AllFalse(results[p])
                  /\ Len(results[p]) < config.ATTEMPTS
                  /\ pauses[p] = Len(results[p])
                  /\ reports[p].success = 0
                  /\ pc[p] \in {"handler", "handlerLocked"} \cup Terminal
            /\ (raises[p] = 0 /\ exc[p] = "none" /\ pc[p] = ran[p]) =>
                  /\ AllFalse(results[p])
                  /\ pauses[p] = Len(results[p])
                  /\ Len(results[p]) < config.ATTEMPTS

(* the first invocation raised with an attempt to spare and the account    *)
(* was reported as failed                                                  *)
C11_Witness ==
    \E p \in Tasks :
        /\ config.ATTEMPTS >= 2
        /\ ~RandintRaises(config.PAUSE_BETWEEN_ATTEMPTS)
        /\ raises[p] = 1
        /\ results[p] = <<>>
        /\ pc[p] = "done"
        /\ reports[p].error = 1

(* tasks between the acquire and the end of their report call *)
BeforeCooldown == {p \in Tasks : pc[p] \in Inside \ {"cooldown"}}

(* C12 as stated: a task in its cooldown pause holds no slot, so no task   *)
(* waits at the semaphore while fewer than THREADS tasks are between the   *)
(* acquire and the end of their report.                                    *)
C12_CooldownHoldsNoSlot ==
    semaphore.waiters # <<>> => Cardinality(BeforeCooldown) = config.THREADS

(* C12 amended: a task holds its slot from the acquire until account_flow  *)
(* has ended, the cooldown pause included: the slots in use are those of   *)
(* the tasks inside account_flow, and a task waits at the semaphore only   *)
(* while THREADS tasks are inside, some of them possibly in cooldown.      *)
C12_SlotHeldThroughCooldown ==
    startPc \in {"gather", "returned", "raised"} =>
        /\ config.THREADS - semaphore.value = Cardinality(Holders)
        /\ \A p \in Tasks : pc[p] = "waiting" <=> p \in Range(semaphore.waiters)
        /\ semaphore.waiters # <<>> => Cardinality(Holders) = config.THREADS

(* a task is in its cooldown pause while another waits at the semaphore *)
C12_Witness ==
    \E p, q \in Tasks :
        /\ pc[p] = "cooldown"
        /\ pc[q] = "waiting"
        /\ Cardinality(BeforeCooldown) < config.THREADS

(* the last step of account_flow a task entered *)
LastStep(p) == IF trace[p] = <<>> THEN "none" ELSE trace[p][Len(trace[p])]

(* C13: a task that has ended after reporting an outcome performed the     *)
(* cooldown pause as its last step.                                        *)
C13_CooldownAfterEveryReport ==
    \A p \in Tasks :
        (pc[p] = "done" /\ reports[p].success + reports[p].error >= 1)
            => LastStep(p) = "cooldown"

(* warm-up 1, initialize 2, flow 3, report 4, cooldown 5 *)
Rank(step) ==
    CASE step = "warmup" -> 1
      [] step = "init" -> 2
      [] step = "flow" -> 3
      [] step = "report" -> 4
      [] step = "cooldown" -> 5

(* C14: the steps of a task are entered in the order warm-up, initialize,  *)
(* flow, report, cooldown: none is entered after a later one, initialize   *)
(* only after the warm-up, flow only after the initialize phase returned.  *)
C14_PhaseOrder ==
    \A p \in Tasks :
        /\ \A i, j \in 1..Len(trace[p]) : i < j => Rank(trace[p][i]) <= Rank(trace[p][j])
        /\ \A i \in 1..Len(trace[p]) : trace[p][i] = "init" => (i = 2 /\ trace[p][1] = "warmup")
        /\ \A i \in 1..Len(trace[p]) : trace[p][i] = "flow" => res[p]["init"] # "none"

(* C15: every invocation of Start.flow of one task plans the same task     *)
(* sequence.                                                               *)
C15_PlanResolvedOnce ==
    \A p \in Tasks :
        \A i, j \in 1..Len(plans[p]) : plans[p][i] = plans[p][j]

(* the plan of the latest invocation of Start.flow *)
LastPlan(p) == plans[p][Len(plans[p])]

(* C16 as stated: with a valid pause range, an invocation of flow that     *)
(* planned its tasks executes every one of them and sleeps after each.     *)
C16_NoTaskAborts ==
    \A p \in Tasks :
        (planned[p] > 0 /\ ~RandintRaises(config.RANDOM_PAUSE_BETWEEN_ACTIONS)) =>
            /\ Len(executed[p]) = Len(LastPlan(p))
            /\ sleeps[p] = Len(LastPlan(p))

(* C16 amended: the tasks are executed in plan order; a task that returns  *)
(* False or has no handler does not end the invocation and is followed by  *)
(* the pause and the next task; a task that raises ends it: no pause, no   *)
(* further task, flow returns False.                                       *)
C16_OnlyRaiseAborts ==
    \A p \in Tasks :
        (planned[p] > 0 /\ ~RandintRaises(config.RANDOM_PAUSE_BETWEEN_ACTIONS)) =>
            LET e == executed[p]
                n == Len(e)
                raisedAt == {i \in 1..n : e[i].outcome = "raise"}
            IN /\ n <= Len(LastPlan(p))
               /\ \A i \in 1..n : e[i].task = LastPlan(p)[i]
               /\ raisedAt \subseteq {n}
               /\ n < Len(LastPlan(p)) => raisedAt = {n}
               /\ sleeps[p] = n - Cardinality(raisedAt)
               /\ ran[p] = "flow"
                    => (results[p][Len(results[p])] = Bool(FALSE) <=> raisedAt # {})

(* the first of two planned tasks raised: it was the only one executed, no *)
(* pause followed and the flow phase returned False                        *)
C16_Witness ==
    \E p \in Tasks :
        /\ planned[p] > 0
        /\ Len(LastPlan(p)) = 2
        /\ executed[p] = <<[task |-> "logs", outcome |-> "raise"]>>
        /\ sleeps[p] = 0
        /\ res[p]["flow"] = "false"

(* C17: with proxies, private keys and a non-empty selection, start()      *)
(* creates a task for every batch position.                                *)
C17_BatchNeverFails ==
    (~NoInputs(config) /\ startPc # "setup") => \A p \in Tasks : pc[p] # "none"

EmptyLedger == \A root \in DOMAIN ledger : \A f \in Files : ledger[root][f] = <<>>

(* C18: without proxies, without private keys or with an empty selection   *)
(* start() returns: no task is created and nothing is written.             *)
C18_NoInputsNoRun ==
    (config.proxies = <<>> \/ config.private_keys = 0 \/ config.accounts = 0) =>
        /\ startPc \in {"setup", "no_inputs"}
        /\ \A p \in Tasks : pc[p] = "none"
        /\ admitted = <<>>
        /\ EmptyLedger

(* accounts are selected, the proxy file is empty, start() has returned *)
C18_Witness ==
    /\ config.accounts > 0
    /\ config.proxies = <<>>
    /\ startPc = "no_inputs"

(* tasks inside the body of report_success / report_error *)
Writers == {p \in Tasks : pc[p] \in {"reportLocked", "handlerLocked"}}

(* the lines of the three files of a root belong to the same accounts, in  *)
(* the same order                                                          *)
Aligned(dir) ==
    /\ Len(dir["proxies"]) = Len(dir["account_indices"])
    /\ Len(dir["discord_tokens"]) =
          (IF config.discord_tokens = <<>> THEN 0 ELSE Len(dir["account_indices"]))
    /\ \A i \in 1..Len(dir["account_indices"]) :
          LET p == dir["account_indices"][i] - config.start_index + 1
          IN /\ dir["proxies"][i] = Proxy(p)
             /\ config.discord_tokens # <<>> => dir["discord_tokens"][i] = DiscordToken(p)

Lines(f) == Len(ledger["success_data"][f]) + Len(ledger["error_data"][f])

C21_StatisticsAfterLaunch ==
    startPc = "raised" => admitted = <<>>

(* start() is past _get_accounts_to_process *)
HasSelected == startPc # "select"

(* the keys of a list, as a set of positions in the key file *)
Elements(s) == {s[i] : i \in 1..Len(s)}

(* no entry of the list occurs twice *)
Distinct(s) == \A i, j \in 1..Len(s) : i # j => s[i] # s[j]

(* C22: with ACCOUNTS_RANGE = (0, 0) and no explicit list, all m accounts  *)
(* of the key file are returned, each exactly once, with start_index = 1   *)
(* and end_index = m.                                                      *)
C22_AllAccounts ==
    (HasSelected /\ Degenerate(config.ACCOUNTS_RANGE) /\ config.EXACT_ACCOUNTS_TO_USE = <<>>) =>
        /\ Len(accounts_info.accounts) = config.private_keys
        /\ Distinct(accounts_info.accounts)
        /\ Elements(accounts_info.accounts) = 1..config.private_keys
        /\ accounts_info.start_index = 1
        /\ accounts_info.end_index = config.private_keys

(* all accounts of a key file of several lines, launched in another order  *)
C22_Witness ==
    /\ HasSelected
    /\ Degenerate(config.ACCOUNTS_RANGE)
    /\ config.EXACT_ACCOUNTS_TO_USE = <<>>
    /\ config.private_keys >= 2
    /\ accounts_info.accounts[1] # 1

(* C23: with ACCOUNTS_RANGE = (0, 0) and a non-empty explicit list E, the  *)
(* accounts returned are exactly those at the positions of E that lie in   *)
(* 1..m, the other positions are dropped, and start_index / end_index are  *)
(* the smallest / largest configured position.                             *)
C23_ExplicitAccounts ==
    LET E == Elements(config.EXACT_ACCOUNTS_TO_USE)
    IN (HasSelected /\ Degenerate(config.ACCOUNTS_RANGE) /\ E # {}) =>
           /\ Elements(accounts_info.accounts) = E \cap (1..config.private_keys)
           /\ Len(accounts_info.accounts) = Cardinality(E \cap (1..config.private_keys))
           /\ accounts_info.start_index \in E
           /\ accounts_info.end_index \in E
           /\ \A x \in E : accounts_info.start_index <= x /\ x <= accounts_info.end_index

(* an explicit list with a position inside and a position past the key     *)
(* file: one account selected, end_index past the file                     *)
C23_Witness ==
    LET E == Elements(config.EXACT_ACCOUNTS_TO_USE)
    IN /\ HasSelected
       /\ Degenerate(config.ACCOUNTS_RANGE)
       /\ \E x \in E : x > config.private_keys
       /\ \E x \in E : x \in 1..config.private_keys
       /\ Len(accounts_info.accounts) = 1
       /\ accounts_info.end_index > config.private_keys

HasCycled == startPc \in {"gather", "returned", "raised"}

(* C25: for a source of m > 0 entries and a target length n, _cycle_list   *)
(* returns exactly n entries, entry i being source[i mod m] for every i in *)
(* 0..n-1.                                                                 *)
C25_CycleList ==
    HasCycled =>
        /\ Len(cycled_proxies) = config.accounts
        /\ \A i \in 0..(config.accounts - 1) :
              cycled_proxies[i + 1] = config.proxies[(i % Len(config.proxies)) + 1]

(* fewer proxies than accounts: the list starts again at the first proxy   *)
C25_Witness ==
    /\ HasCycled
    /\ Len(config.proxies) < config.accounts
    /\ Len(cycled_proxies) = config.accounts
    /\ cycled_proxies[Len(config.proxies) + 1] = config.proxies[1]

(* C26: the launch list is a permutation of the selected accounts (same    *)
(* length, every selected account exactly once) and the recorded order has *)
(* one label per launched account, the labels being pairwise distinct and  *)
(* a permutation of start_index .. start_index + n - 1.                    *)
C26_OrderIsPermutation ==
    LET selected == Selected(config.private_keys, config.ACCOUNTS_RANGE,
                             config.EXACT_ACCOUNTS_TO_USE)
        n == Len(accounts_info.accounts)
    IN HasSelected =>
           /\ n = Len(selected)
           /\ Elements(accounts_info.accounts) = Elements(selected)
           /\ Distinct(accounts_info.accounts)
           /\ Len(accounts_info.order) = n
           /\ Distinct(accounts_info.order)
           /\ Elements(accounts_info.order) =
                  accounts_info.start_index..(accounts_info.start_index + n - 1)

(* several accounts launched in an order that is not the file order *)
C26_Witness ==
    /\ HasSelected
    /\ Len(accounts_info.accounts) >= 2
    /\ accounts_info.order[1] # accounts_info.start_index

(* C27: the account index a launched pipeline carries, and writes to the   *)
(* ledgers, is the label recorded for it in the order and the 1-based      *)
(* position of its key in the key file.                                    *)
C27_IndexIsKeyPosition ==
    \A p \in Tasks :
        pc[p] # "none" =>
            /\ AccountIndex(p) = accounts_info.order[p]
            /\ AccountIndex(p) = accounts_info.accounts[p]

(* C28: the retry loops of MonadXYZ pause between each failed attempt and  *)
(* the next one and do not pause after the final failed attempt.           *)
C28_TaskRetryPauses ==
    \A name \in Loops :
        LET l == loops[name]
        IN /\ l.ret \in {"running", "true"} => l.pauses = l.failed
           /\ l.ret = "false" => l.pauses = l.failed - 1

CountsAsSuccess(v) ==
    \/ v = Bool(TRUE)
    \/ v.type = "tuple" /\ v.items # <<>> /\ v.items[1] = "True"

(* C30: an attempt of _execute_with_retries is successful exactly when the *)
(* operation returned True or a tuple whose first element is True; every   *)
(* other result is a failed attempt: the call goes on to the next attempt  *)
(* or returns False, and no result makes it end with an exception.         *)
C30_SuccessExactly ==
    \A p \in Tasks :
        (ran[p] # "none" /\ results[p] # <<>>) =>
            LET r == results[p]
                last == r[Len(r)]
                returnedTrue == pc[p] # ran[p] /\ res[p][ran[p]] = "true"
            IN /\ \A i \in 1..(Len(r) - 1) : ~CountsAsSuccess(r[i])
               /\ CountsAsSuccess(last) <=> returnedTrue
               /\ raises[p] = 0 => exc[p] # ran[p]

(* ------------------- ledgers, flow, indices, swaps -------------------- *)

(* the report call at the end of the try block of account_flow returned *)
ReportReturned(p) ==
    \/ pc[p] = "cooldown"
    \/ exc[p] = "cooldown"
    \/ pc[p] = "done" /\ exc[p] = "none"

(* the report_error call of the except handler returned *)
HandlerReturned(p) == exc[p] # "none" /\ pc[p] = "done"

(* the tasks whose calls of report_success (of report_error) returned, one *)
(* entry per call                                                          *)
ReturnedCalls(root) ==
    IF root = "success_data"
    THEN {<<p, "report">> : p \in {q \in Tasks : Success(q) /\ ReportReturned(q)}}
    ELSE {<<p, "report">> : p \in {q \in Tasks : ~Success(q) /\ ReportReturned(q)}}
         \cup {<<p, "handler">> : p \in {q \in Tasks : HandlerReturned(q)}}

C32_NoTaskWithoutSession ==
    \A p \in Tasks :
        /\ session[p] = FALSE =>
              /\ planned[p] = 0
              /\ plans[p] = <<>>
              /\ executed[p] = <<>>
              /\ sleeps[p] = 0
              /\ res[p]["init"] # "true"
              /\ res[p]["flow"] # "true"
              /\ ran[p] = "flow" => AllFalse(results[p])
        /\ (session[p] = FALSE /\ ran[p] = "flow" /\ pc[p] \in AfterFlow)
              => Len(results[p]) = config.ATTEMPTS

(* between two invocations of flow without a session: the first returned   *)
(* False, nothing was planned, the retry is about to be made               *)
C32_Witness ==
    \E p \in Tasks :
        /\ session[p] = FALSE
        /\ pc[p] = "flow"
        /\ ran[p] = "flow"
        /\ results[p] = <<Bool(FALSE)>>
        /\ planned[p] = 0

(* the latest invocation of Start.flow of task p got past the session      *)
(* check                                                                   *)
FlowRanWithSession(p) == session[p] /\ ran[p] = "flow" /\ planned[p] > 0

(* an exception was raised in the latest invocation of flow: a task        *)
(* raised, or random.randint of the pause after a task did                 *)
FlowRaised(p) ==
    \/ \E i \in 1..Len(executed[p]) : executed[p][i].outcome = "raise"
    \/ Len(executed[p]) > 0 /\ RandintRaises(config.RANDOM_PAUSE_BETWEEN_ACTIONS)

Launched == {p \in Tasks : pc[p] # "none"}

(* C34: the account indices passed to the launched pipelines are pairwise  *)
(* distinct and each is at least 1, whatever ACCOUNTS_RANGE and            *)
(* EXACT_ACCOUNTS_TO_USE select.                                           *)
C34_IndicesDistinctFromOne ==
    /\ \A p, q \in Launched : p # q => AccountIndex(p) # AccountIndex(q)
    /\ \A p \in Launched : AccountIndex(p) >= 1

(* C35: _retry_swap calls swapper.swap at most ATTEMPTS times, returns     *)
(* True after the first call that does not raise, without a further call,  *)
(* and False after ATTEMPTS raising calls; _izumi_swaps makes no swap      *)
(* after the first _retry_swap that returned False, and returns True only  *)
(* if every planned swap succeeded.                                        *)
C35_SwapRetries ==
    LET l == loops["_retry_swap"]
        z == loops["_izumi_swaps"]
        n == Len(z.returned)
    IN /\ l.calls <= config.ATTEMPTS
       /\ l.swapped >= 1 => (l.ret = "true" /\ l.swapped = 1)
       /\ l.ret = "true" => l.swapped = 1
       /\ l.ret = "false" => (l.calls = config.ATTEMPTS /\ l.swapped = 0)
       /\ \A i \in 1..(n - 1) : z.returned[i] = "true"
       /\ z.ret = "false" => (z.returned[n] = "false" /\ l.ret = "false")
       /\ z.ret = "true" =>
             (n = z.number_of_swaps /\ \A i \in 1..n : z.returned[i] = "true")
=============================================================================
